---- MODULE Spec2Model ----
(***************************************************************************)
(* Smart Time Management System (src/main.py): the Mesa model UserModel,   *)
(* its four agents, and the Flask controller (start / stop / step / reset, *)
(* the background loop run_sim_loop, and the lock-free read routes).       *)
(*                                                                         *)
(* Encoding                                                                *)
(*  - Python None of an int field is -1 (assigned_slot is never negative:  *)
(*    it is max(0, time_minute) plus non-negative increments).             *)
(*  - A deadline is a string, modelled as the sequence of its character    *)
(*    codes; None and '' are both falsy in `x.deadline or '9999'` and are  *)
(*    both the empty sequence.                                             *)
(*  - Task.id is a uuid4 that no rule reads; a task is named by its index  *)
(*    in MODEL.tasks.                                                      *)
(*  - MODEL is flattened into MODEL_is_None, time_minute, tasks,           *)
(*    reminders, focus_log and model_vars (the DataCollector's rows).      *)
(*  - A tick (UserModel.step) is six steps of the thread that runs it, so  *)
(*    that a thread which does not take SIM_LOCK can see it half done.     *)
(***************************************************************************)
EXTENDS Integers, Sequences, FiniteSets, TLC

\* ---------------------------------------------------------------- bounds
MaxTicks == 5
MaxThreads == 2
NSteppers == 2
NBig == 27
MaxBigTicks == 152
MaxSeqTicks == 64

\* ------------------------------------------------------ program constants
TICK == 5
SLOT == 30
REMIND_WINDOW == 30
MAX_REMINDERS == 50
None == -1
NoDeadline == <<>>
SENTINEL == <<57, 57, 57, 57>>

Max(a, b) == IF a >= b THEN a ELSE b

\* ------------------------------------------------------------------ Task
Task(title, est_minutes, priority, deadline) ==
  [title |-> title, est_minutes |-> est_minutes, priority |-> priority,
   deadline |-> deadline, assigned_slot |-> None, time_spent |-> 0,
   completed |-> FALSE]

sample_tasks ==
  << Task("Email triage", 20, 2, NoDeadline),
     Task("Write report section", 90, 3, NoDeadline),
     Task("Code review", 45, 2, NoDeadline),
     Task("Deep work: model training", 120, 1, NoDeadline),
     Task("Plan next day", 30, 4, NoDeadline) >>

\* Scenario seeds of the initial task set provider.
SeedA == << Task("A", 20, 2, NoDeadline) >>
SeedB == << Task("B", 20, 3, <<50, 48, 50, 54>>) >>
SeedShort ==
  << Task("s1", 5, 5, NoDeadline), Task("s2", 10, 1, <<50, 48>>),
     Task("s3", 5, 3, NoDeadline), Task("s4", 60, 2, <<49, 57>>) >>
\* Scenario C: four tasks below 0.6 * mean (48) and one above.
SeedC ==
  << Task("c1", 10, 1, NoDeadline), Task("c2", 10, 2, NoDeadline),
     Task("c3", 10, 3, NoDeadline), Task("c4", 200, 4, NoDeadline),
     Task("c5", 10, 5, NoDeadline) >>
\* tasks=[]: `tasks or []`
SeedEmpty == << >>
Seeds == {sample_tasks, SeedA, SeedB, SeedShort, SeedC, SeedEmpty}

\* Scenario D: equal priorities, the task without deadline stored first;
\* the deadlines are "2026" and "2025".
SeedD ==
  << Task("n", 30, 3, NoDeadline), Task("d", 30, 3, <<50, 48, 50, 54>>),
     Task("e", 45, 3, <<50, 48, 50, 53>>) >>
\* ... and the deadline "9999-12-31", the last ISO date.
SeedLate ==
  << Task("n", 30, 3, NoDeadline),
     Task("late", 30, 3, <<57, 57, 57, 57, 45, 49, 50, 45, 51, 49>>) >>
\* Estimates that are not multiples of the tick.
SeedOdd == << Task("o1", 32, 1, NoDeadline), Task("o2", 8, 2, NoDeadline) >>
SeqSeeds == {sample_tasks, SeedShort, SeedD, SeedLate, SeedOdd}

\* A long seed: NBig five-minute tasks, one reminder and one completion each.
BigSeed == [i \in 1..NBig |-> Task(<<"b", i>>, 5, 3, NoDeadline)]

\* ------------------------------------------------- SchedulerAgent.step
\* Python's string order: lexicographic on the character codes, a proper
\* prefix first.
RECURSIVE StrLess(_, _)
StrLess(a, b) ==
  IF b = <<>> THEN FALSE
  ELSE IF a = <<>> THEN TRUE
  ELSE IF Head(a) # Head(b) THEN Head(a) < Head(b)
  ELSE StrLess(Tail(a), Tail(b))

\* key=lambda x: (x.priority, x.deadline or '9999')
DeadlineKey(t) == IF t.deadline = <<>> THEN SENTINEL ELSE t.deadline

KeyLess(t, u) ==
  \/ t.priority < u.priority
  \/ t.priority = u.priority /\ StrLess(DeadlineKey(t), DeadlineKey(u))

\* list.sort is stable: x goes after every element whose key is not greater.
RECURSIVE InsertSorted(_, _, _)
InsertSorted(ts, x, sorted) ==
  IF sorted = <<>> THEN <<x>>
  ELSE IF KeyLess(ts[x], ts[Head(sorted)]) THEN <<x>> \o sorted
  ELSE <<Head(sorted)>> \o InsertSorted(ts, x, Tail(sorted))

RECURSIVE SortByKey(_, _, _)
SortByKey(ts, pending, sorted) ==
  IF pending = <<>> THEN sorted
  ELSE SortByKey(ts, Tail(pending), InsertSorted(ts, Head(pending), sorted))

Indices(ts) == [i \in 1..Len(ts) |-> i]

Unscheduled(ts) ==
  SelectSeq(Indices(ts),
            LAMBDA i : ts[i].assigned_slot = None /\ ~ts[i].completed)

RECURSIVE AssignSlots_FixedStep(_, _, _)
AssignSlots_FixedStep(ts, order, current_minute) ==
  IF order = <<>> THEN ts
  ELSE AssignSlots_FixedStep(
         [ts EXCEPT ![Head(order)].assigned_slot = current_minute],
         Tail(order), current_minute + SLOT)

\* for t in unscheduled: t.assigned_slot = current_minute;
\*                       current_minute += max(30, t.est_minutes)
RECURSIVE AssignSlots(_, _, _)
AssignSlots(ts, order, current_minute) ==
  IF order = <<>> THEN ts
  ELSE AssignSlots([ts EXCEPT ![Head(order)].assigned_slot = current_minute],
                   Tail(order),
                   current_minute + Max(SLOT, ts[Head(order)].est_minutes))

SchedulerStep_FromZero(ts, now) ==
  AssignSlots(ts, SortByKey(ts, Unscheduled(ts), <<>>), 0)

SchedulerStep(ts, now) ==
  AssignSlots(ts, SortByKey(ts, Unscheduled(ts), <<>>), Max(0, now))

\* --------------------------------------------- TaskOptimizerAgent.step
RECURSIVE SumEst(_, _)
SumEst(ts, idx) ==
  IF idx = <<>> THEN 0 ELSE ts[Head(idx)].est_minutes + SumEst(ts, Tail(idx))

Remaining(ts) == SelectSeq(Indices(ts), LAMBDA i : ~ts[i].completed)

\* t.est_minutes < avg_est * 0.6 with avg_est = sum / len, in exact
\* arithmetic: est * len * 10 < sum * 6.  (In double precision the test has
\* the same outcome for every 1..8 positive integers summing to under 2000.)
IsShort(ts, i) ==
  ts[i].est_minutes * Len(Remaining(ts)) * 10 < SumEst(ts, Remaining(ts)) * 6

LowerPriority_NoClamp(p) == p - 1

LowerPriority(p) == Max(1, p - 1)

OptimizerStep_NoLoadGuard(ts) ==
  [i \in 1..Len(ts) |->
     IF ~ts[i].completed /\ IsShort(ts, i)
       THEN [ts[i] EXCEPT !.priority = LowerPriority(ts[i].priority)]
       ELSE ts[i]]

OptimizerStep(ts) ==
  [i \in 1..Len(ts) |->
     IF ~ts[i].completed /\ IsShort(ts, i) /\ Len(Remaining(ts)) > 3
       THEN [ts[i] EXCEPT !.priority = LowerPriority(ts[i].priority)]
       ELSE ts[i]]

\* ---------------------------------------------------- ReminderAgent.step
\* f"Reminder: '{t.title}' starts at minute {t.assigned_slot}."
ReminderText(t) == [kind |-> "Reminder", title |-> t.title, at |-> t.assigned_slot]
\* f"Completed: {t.title}"
CompletedText(t) == [kind |-> "Completed", title |-> t.title, at |-> None]

InSeq(x, s) == \E k \in 1..Len(s) : s[k] = x

Trim_Never(r) == r

\* while len(reminders) > 50: reminders.pop()
RECURSIVE Trim(_)
Trim(r) == IF Len(r) > MAX_REMINDERS THEN Trim(SubSeq(r, 1, Len(r) - 1)) ELSE r

Near(t, now) ==
  /\ ~t.completed
  /\ t.assigned_slot # None
  /\ 0 <= t.assigned_slot - now
  /\ t.assigned_slot - now <= REMIND_WINDOW

Remind(r, t) ==
  IF InSeq(ReminderText(t), r) THEN r ELSE Trim(<<ReminderText(t)>> \o r)

RECURSIVE ReminderStep(_, _, _, _)
ReminderStep(ts, i, r, now) ==
  IF i > Len(ts) THEN r
  ELSE ReminderStep(ts, i + 1, IF Near(ts[i], now) THEN Remind(r, ts[i]) ELSE r, now)

\* ------------------------------------------------ FocusMonitorAgent.step
Due(t, now) ==
  /\ t.assigned_slot # None
  /\ ~t.completed
  /\ t.assigned_slot <= now
  /\ now < t.assigned_slot + t.est_minutes

DueSet(ts, now) == {i \in 1..Len(ts) : Due(ts[i], now)}

\* the first task of the collection, in stored order, that is due; 0 if none
Active(ts, now) ==
  IF DueSet(ts, now) = {} THEN 0
  ELSE CHOOSE i \in DueSet(ts, now) : \A j \in DueSet(ts, now) : i <= j

Worked_Double(t) ==
  [t EXCEPT !.time_spent = t.time_spent + TICK + TICK,
            !.completed = IF t.time_spent + TICK + TICK >= t.est_minutes
                            THEN TRUE ELSE t.completed]

Worked_Strict(t) ==
  [t EXCEPT !.time_spent = t.time_spent + TICK,
            !.completed = IF t.time_spent + TICK > t.est_minutes
                            THEN TRUE ELSE t.completed]

Worked(t) ==
  [t EXCEPT !.time_spent = t.time_spent + TICK,
            !.completed = IF t.time_spent + TICK >= t.est_minutes
                            THEN TRUE ELSE t.completed]

FocusTasks(ts, now) ==
  IF Active(ts, now) = 0 THEN ts
  ELSE [ts EXCEPT ![Active(ts, now)] = Worked(ts[Active(ts, now)])]

FocusEntry(ts, now) ==
  IF Active(ts, now) = 0
    THEN [minute |-> now, task |-> <<>>, worked |-> 0]
    ELSE [minute |-> now, task |-> <<ts[Active(ts, now)].title>>, worked |-> TICK]

FocusReminders(ts, r, now) ==
  IF Active(ts, now) # 0 /\ Worked(ts[Active(ts, now)]).completed
    THEN <<CompletedText(ts[Active(ts, now)])>> \o r
    ELSE r

\* ---------------------------------------------------------- DataCollector
Sample(ts, now) ==
  [time_minute |-> now,
   tasks_remaining |-> Cardinality({i \in 1..Len(ts) : ~ts[i].completed}),
   tasks_completed |-> Cardinality({i \in 1..Len(ts) : ts[i].completed})]

\* ------------------------------------------------------------------ state
VARIABLES
  seed,           \* what the initial task set provider (sample_tasks) returns
  MODEL_is_None,  \* MODEL is None
  time_minute,    \* MODEL.time_minute
  tasks,          \* MODEL.tasks
  reminders,      \* MODEL.reminders (deque, index 1 is the left end)
  focus_log,      \* MODEL.focus_log
  model_vars,     \* MODEL.datacollector's rows, one per collect()
  RUNNING,
  SIM_THREAD,     \* the last loop thread started, 0 for None; loop threads
                  \* never return, so the live ones are 1..SIM_THREAD
  SIM_LOCK,       \* 0 when free, else the thread holding it
  pc,             \* where each loop thread and each /step request stands
  tick0,          \* history: clock and tasks when the tick in progress began
  resp            \* the response of the last /state, /chart-data or /report

vars == <<seed, MODEL_is_None, time_minute, tasks, reminders, focus_log,
          model_vars, RUNNING, SIM_THREAD, SIM_LOCK, pc, tick0, resp>>

model == <<MODEL_is_None, time_minute, tasks, reminders, focus_log, model_vars>>

Loops == 1..MaxThreads
Steppers == {MaxThreads + k : k \in 1..NSteppers}
Threads == Loops \cup Steppers

\* A thread at one of these is inside MODEL.step(); pc names its next step.
Phases == {"advance", "scheduler", "optimizer", "reminder", "focus", "collect"}
\* ... and at one of these it has advanced the clock and not yet sampled.
MidTick == Phases \ {"advance"}

NoTick == [time_minute |-> None, tasks |-> <<>>]
NoResp == [route |-> "none", code |-> 0, time_minute |-> None,
           focus_len |-> None, labels_len |-> None, worked |-> None,
           completed |-> None, error |-> ""]

Fresh_SharedTasks ==
  /\ MODEL_is_None' = FALSE
  /\ time_minute' = 0
  /\ tasks' = IF MODEL_is_None THEN seed ELSE tasks
  /\ reminders' = <<>>
  /\ focus_log' = <<>>
  /\ model_vars' = <<>>

\* UserModel.__init__
Fresh ==
  /\ MODEL_is_None' = FALSE
  /\ time_minute' = 0
  /\ tasks' = seed
  /\ reminders' = <<>>
  /\ focus_log' = <<>>
  /\ model_vars' = <<>>

InitWith(S) ==
  /\ seed \in S
  /\ MODEL_is_None = TRUE
  /\ time_minute = 0
  /\ tasks = <<>>
  /\ reminders = <<>>
  /\ focus_log = <<>>
  /\ model_vars = <<>>
  /\ RUNNING = FALSE
  /\ SIM_THREAD = 0
  /\ SIM_LOCK = 0
  /\ pc = [t \in Threads |-> IF t \in Loops THEN "unstarted" ELSE "idle"]
  /\ tick0 = NoTick
  /\ resp = NoResp

Init == InitWith(Seeds)

Acquire_NoWait(t) == SIM_LOCK' = t

\* with SIM_LOCK: (threading.Lock, not re-entrant)
Acquire(t) == SIM_LOCK = 0 /\ SIM_LOCK' = t
Release(t) == SIM_LOCK' = 0

\* ---------------------------------------------------------- the controller
\* POST /start
start ==
  /\ SIM_LOCK = 0
  /\ IF MODEL_is_None THEN Fresh ELSE UNCHANGED model
  /\ IF RUNNING
       THEN UNCHANGED <<RUNNING, SIM_THREAD, pc>>
       ELSE /\ SIM_THREAD < MaxThreads
            /\ RUNNING' = TRUE
            /\ SIM_THREAD' = SIM_THREAD + 1
            /\ pc' = [pc EXCEPT ![SIM_THREAD + 1] = "sleep"]
  /\ UNCHANGED <<seed, SIM_LOCK, tick0, resp>>

\* POST /stop
stop ==
  /\ SIM_LOCK = 0
  /\ RUNNING' = FALSE
  /\ UNCHANGED <<seed, model, SIM_THREAD, SIM_LOCK, pc, tick0, resp>>

\* POST /reset
reset ==
  /\ SIM_LOCK = 0
  /\ Fresh
  /\ RUNNING' = FALSE
  /\ UNCHANGED <<seed, SIM_THREAD, SIM_LOCK, pc, tick0, resp>>

step_once_WhenRunning(t) ==
  /\ RUNNING
  /\ pc[t] = "idle"
  /\ Acquire(t)
  /\ pc' = [pc EXCEPT ![t] = "enter"]
  /\ UNCHANGED <<seed, model, RUNNING, SIM_THREAD, tick0, resp>>

\* POST /step: take the lock ...
step_once(t) ==
  /\ pc[t] = "idle"
  /\ Acquire(t)
  /\ pc' = [pc EXCEPT ![t] = "enter"]
  /\ UNCHANGED <<seed, model, RUNNING, SIM_THREAD, tick0, resp>>

\* ... if MODEL is None: MODEL = UserModel(tasks=sample_tasks())
step_enter(t) ==
  /\ pc[t] = "enter"
  /\ IF MODEL_is_None THEN Fresh ELSE UNCHANGED model
  /\ pc' = [pc EXCEPT ![t] = "advance"]
  /\ UNCHANGED <<seed, RUNNING, SIM_THREAD, SIM_LOCK, tick0, resp>>

\* run_sim_loop: wake from time.sleep(0.9) and take the lock ...
loop_wake(t) ==
  /\ pc[t] = "sleep"
  /\ Acquire(t)
  /\ pc' = [pc EXCEPT ![t] = "check"]
  /\ UNCHANGED <<seed, model, RUNNING, SIM_THREAD, tick0, resp>>

\* ... if not RUNNING or MODEL is None: pass / else: MODEL.step()
LoopTicks_IgnoreFlag == ~MODEL_is_None

LoopTicks == RUNNING /\ ~MODEL_is_None

loop_check(t) ==
  /\ pc[t] = "check"
  /\ IF LoopTicks
       THEN pc' = [pc EXCEPT ![t] = "advance"] /\ UNCHANGED SIM_LOCK
       ELSE pc' = [pc EXCEPT ![t] = "sleep"] /\ Release(t)
  /\ UNCHANGED <<seed, model, RUNNING, SIM_THREAD, tick0, resp>>

\* ------------------------------------------------------- UserModel.step
tick_advance_Twice(t) ==
  /\ pc[t] = "advance"
  /\ time_minute' = time_minute + TICK + TICK
  /\ tick0' = [time_minute |-> time_minute, tasks |-> tasks]
  /\ pc' = [pc EXCEPT ![t] = "scheduler"]
  /\ UNCHANGED <<seed, MODEL_is_None, tasks, reminders, focus_log, model_vars,
                 RUNNING, SIM_THREAD, SIM_LOCK, resp>>

\* self.time_minute += 5
tick_advance(t) ==
  /\ pc[t] = "advance"
  /\ time_minute' = time_minute + TICK
  /\ tick0' = [time_minute |-> time_minute, tasks |-> tasks]
  /\ pc' = [pc EXCEPT ![t] = "scheduler"]
  /\ UNCHANGED <<seed, MODEL_is_None, tasks, reminders, focus_log, model_vars,
                 RUNNING, SIM_THREAD, SIM_LOCK, resp>>

\* self.schedule.step(): the agents in the order they were added
tick_scheduler(t) ==
  /\ pc[t] = "scheduler"
  /\ tasks' = SchedulerStep(tasks, time_minute)
  /\ pc' = [pc EXCEPT ![t] = "optimizer"]
  /\ UNCHANGED <<seed, MODEL_is_None, time_minute, reminders, focus_log,
                 model_vars, RUNNING, SIM_THREAD, SIM_LOCK, tick0, resp>>

tick_optimizer(t) ==
  /\ pc[t] = "optimizer"
  /\ tasks' = OptimizerStep(tasks)
  /\ pc' = [pc EXCEPT ![t] = "reminder"]
  /\ UNCHANGED <<seed, MODEL_is_None, time_minute, reminders, focus_log,
                 model_vars, RUNNING, SIM_THREAD, SIM_LOCK, tick0, resp>>

tick_reminder(t) ==
  /\ pc[t] = "reminder"
  /\ reminders' = ReminderStep(tasks, 1, reminders, time_minute)
  /\ pc' = [pc EXCEPT ![t] = "focus"]
  /\ UNCHANGED <<seed, MODEL_is_None, time_minute, tasks, focus_log,
                 model_vars, RUNNING, SIM_THREAD, SIM_LOCK, tick0, resp>>

tick_focus_NoReturn(t) ==
  /\ pc[t] = "focus"
  /\ tasks' = FocusTasks(tasks, time_minute)
  /\ focus_log' =
       IF Active(tasks, time_minute) = 0
         THEN Append(focus_log, FocusEntry(tasks, time_minute))
         ELSE Append(Append(focus_log, FocusEntry(tasks, time_minute)),
                     [minute |-> time_minute, task |-> <<>>, worked |-> 0])
  /\ reminders' = FocusReminders(tasks, reminders, time_minute)
  /\ pc' = [pc EXCEPT ![t] = "collect"]
  /\ UNCHANGED <<seed, MODEL_is_None, time_minute, model_vars,
                 RUNNING, SIM_THREAD, SIM_LOCK, tick0, resp>>

tick_focus(t) ==
  /\ pc[t] = "focus"
  /\ tasks' = FocusTasks(tasks, time_minute)
  /\ focus_log' = Append(focus_log, FocusEntry(tasks, time_minute))
  /\ reminders' = FocusReminders(tasks, reminders, time_minute)
  /\ pc' = [pc EXCEPT ![t] = "collect"]
  /\ UNCHANGED <<seed, MODEL_is_None, time_minute, model_vars,
                 RUNNING, SIM_THREAD, SIM_LOCK, tick0, resp>>

\* self.datacollector.collect(self), then the with block ends
tick_collect(t) ==
  /\ pc[t] = "collect"
  /\ model_vars' = Append(model_vars, Sample(tasks, time_minute))
  /\ tick0' = NoTick
  /\ pc' = [pc EXCEPT ![t] = IF t \in Loops THEN "sleep" ELSE "idle"]
  /\ Release(t)
  /\ UNCHANGED <<seed, MODEL_is_None, time_minute, tasks, reminders, focus_log,
                 RUNNING, SIM_THREAD, resp>>

\* ------------------------------------------------------- the read routes
\* None of them takes SIM_LOCK.
RECURSIVE SumWorked(_)
SumWorked(log) == IF log = <<>> THEN 0 ELSE Head(log).worked + SumWorked(Tail(log))

NotInitialized(route) ==
  [NoResp EXCEPT !.route = route, !.code = 400, !.error = "no model initialized"]

state_NoCheck ==
  /\ resp' = [NoResp EXCEPT !.route = "state", !.code = 200,
                            !.time_minute = time_minute,
                            !.focus_len = Len(focus_log),
                            !.completed = Sample(tasks, time_minute).tasks_completed]
  /\ UNCHANGED <<seed, model, RUNNING, SIM_THREAD, SIM_LOCK, pc, tick0>>

\* GET /state: jsonify(MODEL.to_json())
state ==
  /\ resp' = IF MODEL_is_None THEN NotInitialized("state")
             ELSE [NoResp EXCEPT !.route = "state", !.code = 200,
                                 !.time_minute = time_minute,
                                 !.focus_len = Len(focus_log),
                                 !.completed = Sample(tasks, time_minute).tasks_completed]
  /\ UNCHANGED <<seed, model, RUNNING, SIM_THREAD, SIM_LOCK, pc, tick0>>

\* GET /chart-data
chart_data ==
  /\ resp' = IF MODEL_is_None THEN NotInitialized("chart-data")
             ELSE [NoResp EXCEPT !.route = "chart-data", !.code = 200,
                                 !.labels_len = Len(model_vars),
                                 !.worked = SumWorked(focus_log)]
  /\ UNCHANGED <<seed, model, RUNNING, SIM_THREAD, SIM_LOCK, pc, tick0>>

\* GET /report
report ==
  /\ resp' = IF MODEL_is_None THEN NotInitialized("report")
             ELSE IF tasks = <<>>
               THEN [NoResp EXCEPT !.route = "report", !.code = 400,
                                   !.error = "no tasks"]
             ELSE [NoResp EXCEPT !.route = "report", !.code = 200,
                                 !.completed = Sample(tasks, time_minute).tasks_completed]
  /\ UNCHANGED <<seed, model, RUNNING, SIM_THREAD, SIM_LOCK, pc, tick0>>

\* ----------------------------------------------------------- specification
Budget == time_minute < MaxTicks * TICK

Next ==
  \/ start
  \/ stop
  \/ reset
  \/ \E t \in Steppers : Budget /\ step_once(t)
  \/ \E t \in Steppers : step_enter(t)
  \/ \E t \in Loops : Budget /\ loop_wake(t)
  \/ \E t \in Loops : loop_check(t)
  \/ \E t \in Threads : tick_advance(t)
  \/ \E t \in Threads : tick_scheduler(t)
  \/ \E t \in Threads : tick_optimizer(t)
  \/ \E t \in Threads : tick_reminder(t)
  \/ \E t \in Threads : tick_focus(t)
  \/ \E t \in Threads : tick_collect(t)
  \/ state
  \/ chart_data
  \/ report

Spec == Init /\ [][Next]_vars

\* One caller stepping a long seed: the run in which reminders fills up.
BigBudget == time_minute < MaxBigTicks * TICK

InitBig == InitWith({BigSeed})

NextBig ==
  \/ \E t \in Steppers : BigBudget /\ step_once(t)
  \/ \E t \in Steppers : step_enter(t)
  \/ \E t \in Steppers : tick_advance(t)
  \/ \E t \in Steppers : tick_scheduler(t)
  \/ \E t \in Steppers : tick_optimizer(t)
  \/ \E t \in Steppers : tick_reminder(t)
  \/ \E t \in Steppers : tick_focus(t)
  \/ \E t \in Steppers : tick_collect(t)

SpecBig == InitBig /\ [][NextBig]_vars

\* Callers that only step and reset, for whole lifetimes of a state.
SeqBudget == time_minute < MaxSeqTicks * TICK

InitSeq == InitWith(SeqSeeds)

NextSeq ==
  \/ reset
  \/ \E t \in Steppers : SeqBudget /\ step_once(t)
  \/ \E t \in Steppers : step_enter(t)
  \/ \E t \in Steppers : tick_advance(t)
  \/ \E t \in Steppers : tick_scheduler(t)
  \/ \E t \in Steppers : tick_optimizer(t)
  \/ \E t \in Steppers : tick_reminder(t)
  \/ \E t \in Steppers : tick_focus(t)
  \/ \E t \in Steppers : tick_collect(t)

SpecSeq == InitSeq /\ [][NextSeq]_vars

\* ------------------------------------------------------------ properties
\* No tick is in progress: the state is at a tick boundary.
AtBoundary == \A t \in Threads : pc[t] \notin MidTick

\* The state exists, is at a tick boundary, and n ticks ran since it was made.
AfterTicks(n) == ~MODEL_is_None /\ AtBoundary /\ Len(model_vars) = n

\* C1: ticks are strictly serialized. No thread is inside MODEL.step()
\* (about to advance the clock, or past it) while another thread is between
\* its clock advance and its time-series sample.
C1_TicksSerialized ==
  \A t, u \in Threads :
    t # u => ~(pc[t] \in Phases /\ pc[u] \in MidTick)

\* A /step request is in the middle of its tick while a started loop thread
\* sleeps with RUNNING set, ready to wake and ask for the lock.
C1_Witness ==
  \E t \in Steppers, u \in Loops :
    pc[t] \in MidTick /\ pc[u] = "sleep" /\ RUNNING

\* C2: every snapshot is the state at a tick boundary. Stated on GET /state:
\* at a boundary one focus-log entry exists per TICK minutes of clock, so a
\* snapshot with any other count saw a tick in progress.
C2_SnapshotAtBoundary ==
  (resp.route = "state" /\ resp.code = 200)
    => resp.time_minute = TICK * resp.focus_len

\* C3: at most one background loop thread exists.
C3_AtMostOneLoop ==
  Cardinality({t \in Loops : pc[t] # "unstarted"}) <= 1

\* C4: while RUNNING is false (stop() or reset() has returned and start() has
\* not been called since) no loop thread executes any step of a tick, and
\* the clock and the tasks change only by a /step request's tick or by the
\* state being made afresh.
C4_StoppedLoopIdle ==
  [][ /\ \A t \in Loops : (pc[t] \in Phases /\ pc'[t] # pc[t]) => RUNNING
      /\ (~RUNNING /\ ~RUNNING' /\ (time_minute' # time_minute \/ tasks' # tasks))
           => (SIM_LOCK \in Steppers \/ (time_minute' = 0 /\ tasks' = seed)) ]_vars

\* A loop thread has woken and holds the lock after stop(): it will skip.
C4_Witness ==
  \E t \in Loops : pc[t] = "check" /\ ~RUNNING /\ time_minute > 0

\* C5: a tick moves the clock from its value at the tick's start to that
\* value plus 5; no step but reset() lowers the clock, and reset() makes it 0.
C5_ClockMonotone ==
  [][ /\ (\A t \in Threads : tick_collect(t) => time_minute' = tick0.time_minute + 5)
      /\ (time_minute' # time_minute =>
            \/ time_minute' = time_minute + 5
            \/ reset /\ time_minute' = 0) ]_vars

\* Two ticks have run and the second is complete.
C5_Witness == AfterTicks(2) /\ time_minute = 10 /\ SIM_LOCK = 0

\* C6: every task's priority is in 1..5 and no step other than the making of
\* a fresh state raises it.
C6_PriorityBounded ==
  [][ \A i \in 1..Len(tasks') :
        /\ tasks'[i].priority \in 1..5
        /\ (i <= Len(tasks) /\ ~(time_minute' = 0 /\ tasks' = seed))
             => tasks'[i].priority <= tasks[i].priority ]_vars

\* PriorityRule has lowered a task to the clamp value 1.
C6_Witness ==
  \E i \in 1..Len(tasks) : tasks[i].priority = 1 /\ seed[i].priority > 1

\* C7: from the start of a tick to its end at most one task's time_spent
\* changes, and it changes by +5.
C7_OneTaskWorked ==
  [][ \A t \in Threads : tick_collect(t) =>
        LET Changed == {i \in 1..Len(tasks') :
                          tasks'[i].time_spent # tick0.tasks[i].time_spent}
        IN /\ Cardinality(Changed) <= 1
           /\ \A i \in Changed :
                tasks'[i].time_spent = tick0.tasks[i].time_spent + 5 ]_vars

\* A tick has worked a task and is about to take its sample, in a state
\* with several tasks.
C7_Witness ==
  /\ Len(tasks) > 1
  /\ \E t \in Threads : pc[t] = "collect"
  /\ \E i \in 1..Len(tasks) : tasks[i].time_spent = tick0.tasks[i].time_spent + 5

\* C8: a ReminderRule run that inserts leaves at most 50 reminders; a
\* WorkRule completion is put at the front untrimmed, and only such a
\* step makes reminders longer than 50.
C8_ReminderCap ==
  [][ /\ \A t \in Threads :
           (tick_reminder(t) /\ reminders' # reminders) => Len(reminders') <= 50
      /\ \A t \in Threads :
           (tick_focus(t) /\ reminders' # reminders) =>
              reminders' = <<CompletedText(tasks[Active(tasks, time_minute)])>> \o reminders
      /\ (Len(reminders') > 50 /\ reminders' # reminders) =>
           \E t \in Threads : tick_focus(t) ]_vars

\* reminders holds 51 entries, the first reminder ever made having been
\* trimmed away by ReminderRule before the completion was put in front.
C8_Witness ==
  /\ Len(reminders) = 51
  /\ reminders[1].kind = "Completed"
  /\ ~InSeq([kind |-> "Reminder", title |-> seed[1].title, at |-> 5], reminders)

\* C9 as stated: after one tick of the one-task seed {est 20, priority 2}
\* the clock is 5, the slot 0, time_spent 5 and the task is not completed.
C9_ScenarioA_Slot0 ==
  (seed = SeedA /\ AfterTicks(1)) =>
    /\ time_minute = 5
    /\ tasks[1].assigned_slot = 0
    /\ tasks[1].time_spent = 5
    /\ ~tasks[1].completed

\* C9 amended: the slot is 5, the clock value the tick had already advanced
\* to when SchedulerRule ran.
C9_ScenarioA ==
  (seed = SeedA /\ AfterTicks(1)) =>
    /\ time_minute = 5
    /\ tasks[1].assigned_slot = 5
    /\ tasks[1].time_spent = 5
    /\ ~tasks[1].completed

C9_Witness == seed = SeedA /\ AfterTicks(1) /\ SIM_LOCK = 0

\* C10: with a single seeded task of est 20, after four ticks the task has
\* time_spent 20, is completed and "Completed: <title>" is the front
\* reminder; after three ticks it is not completed.
C10_ScenarioB ==
  (Len(seed) = 1 /\ seed[1].est_minutes = 20) =>
    /\ AfterTicks(4) =>
         /\ tasks[1].time_spent = 20
         /\ tasks[1].completed
         /\ reminders # <<>>
         /\ reminders[1] = [kind |-> "Completed", title |-> seed[1].title, at |-> None]
    /\ AfterTicks(3) => ~tasks[1].completed

C10_Witness ==
  Len(seed) = 1 /\ seed[1].est_minutes = 20 /\ AfterTicks(4) /\ tasks[1].completed

\* The incomplete tasks and the sum of their estimates, as sets.
Incomplete(ts) == {i \in 1..Len(ts) : ~ts[i].completed}

RECURSIVE EstSum(_, _)
EstSum(ts, S) ==
  IF S = {} THEN 0
  ELSE LET i == CHOOSE x \in S : TRUE
       IN ts[i].est_minutes + EstSum(ts, S \ {i})

\* est < 0.6 * mean over the incomplete tasks, cleared of fractions
BelowThreshold(ts, i) ==
  5 * ts[i].est_minutes * Cardinality(Incomplete(ts)) < 3 * EstSum(ts, Incomplete(ts))

\* C11: a PriorityRule run lowers by 1, not below 1, the priority of exactly
\* the incomplete tasks with est < 0.6 * mean(est of the incomplete tasks),
\* and only when more than 3 tasks are incomplete; with 3 or fewer incomplete
\* no priority changes.  Scenario C: five tasks, four of them below the
\* threshold, priorities 1 2 3 4 5 become 1 1 2 4 4 after one tick.
C11_PriorityRule ==
  /\ []((seed = SeedC /\ AfterTicks(1)) =>
          [i \in 1..5 |-> tasks[i].priority] = <<1, 1, 2, 4, 4>>)
  /\ [][ /\ \A t \in Threads : tick_optimizer(t) =>
              \A i \in 1..Len(tasks) :
                tasks'[i].priority =
                  IF /\ i \in Incomplete(tasks)
                     /\ Cardinality(Incomplete(tasks)) > 3
                     /\ BelowThreshold(tasks, i)
                    THEN (IF tasks[i].priority > 1 THEN tasks[i].priority - 1 ELSE 1)
                    ELSE tasks[i].priority
         /\ (Cardinality(Incomplete(tasks)) <= 3 /\ Len(tasks') = Len(tasks)
               /\ ~(time_minute' = 0 /\ tasks' = seed))
              => \A i \in 1..Len(tasks) : tasks'[i].priority = tasks[i].priority ]_vars

\* Scenario C after its first tick: c2..c3 and c5 lowered, c1 held at 1.
C11_Witness ==
  /\ seed = SeedC
  /\ AfterTicks(1)
  /\ tasks[2].priority = 1
  /\ tasks[5].priority = 4
  /\ tasks[4].priority = 4

\* Unscheduled and incomplete: what SchedulerRule is about to place.
ToPlace(ts) == {i \in 1..Len(ts) : ts[i].assigned_slot = None /\ ~ts[i].completed}

\* C12: in a SchedulerRule run, of two tasks to place with equal priority
\* the one with a deadline gets an earlier slot than the one without,
\* whatever their stored order, and of two with deadlines the one with the
\* earlier deadline gets the earlier slot.
C12_DeadlineFirst ==
  [][ \A t \in Threads : tick_scheduler(t) =>
        \A i, j \in ToPlace(tasks) :
          (tasks[i].priority = tasks[j].priority /\ tasks[i].deadline # <<>>) =>
            /\ tasks[j].deadline = <<>>
                 => tasks'[i].assigned_slot < tasks'[j].assigned_slot
            /\ (tasks[j].deadline # <<>> /\ StrLess(tasks[i].deadline, tasks[j].deadline))
                 => tasks'[i].assigned_slot < tasks'[j].assigned_slot ]_vars

\* A read route answers in this step.
Query == state \/ chart_data \/ report

\* No start(), step() or reset() has run: nothing was started, no request
\* is past its MODEL check, and the state is as the module made it.
Untouched ==
  /\ SIM_THREAD = 0
  /\ ~RUNNING
  /\ \A t \in Steppers : pc[t] \in {"idle", "enter"}
  /\ time_minute = 0
  /\ tasks = <<>>

\* C13: before any start(), step() or reset() the state is absent, and a
\* query then answers 400 "no model initialized" and changes nothing; once
\* the state exists it stays, and a query never gives that answer again.
C13_NotInitialized ==
  /\ [](MODEL_is_None => Untouched)
  /\ [][ /\ Query =>
              /\ UNCHANGED <<model, RUNNING, SIM_THREAD, SIM_LOCK, pc>>
              /\ MODEL_is_None <=>
                   (resp'.code = 400 /\ resp'.error = "no model initialized")
         /\ ~MODEL_is_None => ~MODEL_is_None'
         /\ (start \/ reset \/ \E t \in Steppers : step_enter(t))
              => ~MODEL_is_None' ]_vars

\* A query was refused before initialization, and the state exists now.
C13_Witness ==
  /\ resp.error = "no model initialized"
  /\ ~MODEL_is_None
  /\ time_minute > 0

\* The state UserModel(tasks=sample_tasks()) makes, task ids aside.
IsFresh ==
  /\ ~MODEL_is_None
  /\ time_minute = 0
  /\ reminders = <<>>
  /\ focus_log = <<>>
  /\ model_vars = <<>>
  /\ Len(tasks) = Len(seed)
  /\ \A i \in 1..Len(tasks) :
       /\ tasks[i].assigned_slot = None
       /\ tasks[i].time_spent = 0
       /\ ~tasks[i].completed
       /\ tasks[i].priority = seed[i].priority
       /\ tasks[i].title = seed[i].title
       /\ tasks[i].est_minutes = seed[i].est_minutes
       /\ tasks[i].deadline = seed[i].deadline

\* C14: reset() leaves a fresh state and RUNNING false whatever the state
\* it is called in, and a reset() of the state a reset() left changes
\* nothing.
C14_ResetFresh ==
  [][ reset =>
        /\ IsFresh'
        /\ ~RUNNING'
        /\ (IsFresh /\ ~RUNNING) => UNCHANGED <<model, RUNNING>> ]_vars

\* reset() has run on a state that had ticked (a snapshot of it was read
\* with the clock past 0) and whose loop had been started.
C14_Witness ==
  /\ IsFresh
  /\ ~RUNNING
  /\ SIM_THREAD > 0
  /\ resp.route = "state"
  /\ resp.time_minute > 0
  /\ resp.completed > 0

\* C15: a /step request can take the lock whenever it is free, RUNNING true
\* or false and MODEL present or absent; from taking the lock to releasing
\* it RUNNING does not change, the state is made first when absent, the
\* clock moves once, by +5 at the request's own advance step, one sample is
\* appended and the request ends.  stop() sets RUNNING false and leaves the
\* clock, tasks, reminders, focus log and time series as they are.
C15_StepAndStop ==
  /\ [](\A t \in Steppers : (pc[t] = "idle" /\ SIM_LOCK = 0) => ENABLED step_once(t))
  /\ [][ /\ (SIM_LOCK \in Steppers \/ SIM_LOCK' \in Steppers) => RUNNING' = RUNNING
         /\ \A t \in Steppers : step_enter(t) =>
              /\ MODEL_is_None => IsFresh'
              /\ ~MODEL_is_None => UNCHANGED model
         /\ (SIM_LOCK \in Steppers /\ model' # model) => pc'[SIM_LOCK] # pc[SIM_LOCK]
         /\ (SIM_LOCK \in Steppers /\ time_minute' # time_minute) =>
              /\ pc[SIM_LOCK] = "advance"
              /\ time_minute' = time_minute + 5
         /\ \A t \in Steppers : tick_collect(t) =>
              /\ time_minute' = tick0.time_minute + 5
              /\ Len(model_vars') = Len(model_vars) + 1
              /\ pc'[t] = "idle"
              /\ SIM_LOCK' = 0
         /\ stop => (~RUNNING' /\ UNCHANGED model) ]_vars

\* A /step request is finishing a tick while the simulation is stopped and
\* a loop thread exists.
C15_Witness ==
  \E t \in Steppers : pc[t] = "collect" /\ ~RUNNING /\ SIM_THREAD > 0

\* The order the scheduling contract names: priority ascending, then
\* deadline ascending with an absent deadline after every present one.
PlacedBefore(t, u) ==
  \/ t.priority < u.priority
  \/ /\ t.priority = u.priority
     /\ t.deadline # <<>>
     /\ (u.deadline = <<>> \/ StrLess(t.deadline, u.deadline))

\* C16: a SchedulerRule run gives the tasks to place, in (priority, deadline,
\* absent last) order, sequential slots: one task gets the current clock,
\* every other gets some placed task's slot plus max(30, that task's est), no
\* two get the same slot; nothing but assigned_slot changes, and slotted or
\* completed tasks do not change at all.
C16_SequentialSlots ==
  [][ \A t \in Threads : tick_scheduler(t) =>
        LET P == ToPlace(tasks) IN
        /\ Len(tasks') = Len(tasks)
        /\ \A i \in (1..Len(tasks)) \ P : tasks'[i] = tasks[i]
        /\ \A i \in P :
             /\ tasks'[i] = [tasks[i] EXCEPT !.assigned_slot = tasks'[i].assigned_slot]
             /\ \/ tasks'[i].assigned_slot = time_minute
                \/ \E j \in P \ {i} :
                     tasks'[i].assigned_slot =
                       tasks'[j].assigned_slot +
                         (IF tasks[j].est_minutes > 30 THEN tasks[j].est_minutes ELSE 30)
        /\ P # {} => \E i \in P : tasks'[i].assigned_slot = time_minute
        /\ \A i, j \in P :
             /\ i # j => tasks'[i].assigned_slot # tasks'[j].assigned_slot
             /\ PlacedBefore(tasks[i], tasks[j])
                  => tasks'[i].assigned_slot < tasks'[j].assigned_slot ]_vars

\* C17: at a tick boundary a task is completed exactly when its time_spent
\* has reached its estimate, and time_spent is below estimate + 5; the
\* time_spent of a completed task changes only when the state is replaced.
C17_CompletionExact ==
  /\ [](AtBoundary =>
          \A i \in 1..Len(tasks) :
            /\ tasks[i].completed <=> tasks[i].time_spent >= tasks[i].est_minutes
            /\ tasks[i].time_spent < tasks[i].est_minutes + 5)
  /\ [][ \A i \in 1..Len(tasks) :
           (tasks[i].completed /\ ~reset)
             => (i <= Len(tasks') /\ tasks'[i].time_spent = tasks[i].time_spent) ]_vars

\* A task was completed past its estimate, and ticks have run since.
C17_Witness ==
  /\ AtBoundary
  /\ \E i \in 1..Len(tasks) :
       /\ tasks[i].completed
       /\ tasks[i].time_spent > tasks[i].est_minutes
       /\ time_minute > tasks[i].assigned_slot + tasks[i].time_spent

\* C18: at a tick boundary the focus log and the time series have one entry
\* per tick, clock / 5 of them; the last focus entry carries the clock, and
\* every sample's two counts add up to the number of tasks.
C18_OneEntryPerTick ==
  (~MODEL_is_None /\ AtBoundary) =>
    /\ Len(focus_log) = Len(model_vars)
    /\ 5 * Len(focus_log) = time_minute
    /\ focus_log # <<>> => focus_log[Len(focus_log)].minute = time_minute
    /\ \A k \in 1..Len(model_vars) :
         /\ model_vars[k].tasks_remaining + model_vars[k].tasks_completed = Len(tasks)
         /\ model_vars[k].time_minute = 5 * k

\* Three ticks have run, worked ones and then an idle one.
C18_Witness ==
  /\ AfterTicks(3)
  /\ focus_log[1].worked = 5
  /\ focus_log[3].worked = 0
  /\ model_vars[3].tasks_completed = 1

\* C19: every task is completed in the end if ticks go on.  A task is worked
\* only by a tick whose clock lies in [slot, slot + est), its slot is never
\* reassigned and the clock only grows, so the claim needs every task whose
\* window the next tick will be past to be completed already.
C19_WindowSuffices ==
  AtBoundary =>
    \A i \in 1..Len(tasks) :
      (/\ tasks[i].assigned_slot # None
       /\ time_minute + TICK >= tasks[i].assigned_slot + tasks[i].est_minutes)
        => tasks[i].completed

\* The work window of a task with a slot, as a set of minutes.
Window(t) == t.assigned_slot .. (t.assigned_slot + t.est_minutes - 1)

\* C20: the work windows of two distinct tasks with slots are disjoint, and
\* at no tick's clock value is more than one task due.
C20_WindowsDisjoint ==
  /\ \A i, j \in 1..Len(tasks) :
       (i # j /\ tasks[i].assigned_slot # None /\ tasks[j].assigned_slot # None)
         => Window(tasks[i]) \cap Window(tasks[j]) = {}
  /\ \A k \in 0..(MaxSeqTicks + 1) : Cardinality(DueSet(tasks, k * TICK)) <= 1

\* Two tasks hold slots, the second window beginning where a window of more
\* than 30 minutes ends.
C20_Witness ==
  \E i, j \in 1..Len(tasks) :
    /\ i # j
    /\ tasks[i].assigned_slot # None
    /\ tasks[i].est_minutes > 30
    /\ tasks[j].assigned_slot = tasks[i].assigned_slot + tasks[i].est_minutes

====
